---------------------------- MODULE Spec2Model ----------------------------
(***************************************************************************)
(* ITG-3200 gyroscope driver (src/Common/ITG3200.c, src/ITG3200.h).        *)
(*                                                                         *)
(* The device is a register file behind an I2C bus.  Every driver function *)
(* is one action; the bus accessors it calls (I2CDeviceReadBit, ...) are   *)
(* operators on a "driver run" record that carries the registers, the      *)
(* shared buffer and the log of the bus transactions issued so far.        *)
(***************************************************************************)
EXTENDS Integers, Sequences, FiniteSets, TLC

(***************************************************************************)
(* Bounds of the model.                                                    *)
(***************************************************************************)
\* number of driver calls in one behaviour of Spec
MaxCalls == 2

(***************************************************************************)
(* Header constants, src/ITG3200.h.                                        *)
(***************************************************************************)
ITG3200_RA_WHO_AM_I == 0
ITG3200_RA_SMPLRT_DIV == 21
ITG3200_RA_DLPF_FS == 22
ITG3200_RA_INT_CFG == 23
ITG3200_RA_INT_STATUS == 26
ITG3200_RA_TEMP_OUT_H == 27
ITG3200_RA_TEMP_OUT_L == 28
ITG3200_RA_GYRO_XOUT_H == 29
ITG3200_RA_GYRO_XOUT_L == 30
ITG3200_RA_GYRO_YOUT_H == 31
ITG3200_RA_GYRO_YOUT_L == 32
ITG3200_RA_GYRO_ZOUT_H == 33
ITG3200_RA_GYRO_ZOUT_L == 34
ITG3200_RA_PWR_MGM == 62

ITG3200_DEVID_BIT == 6
ITG3200_DEVID_LENGTH == 6

ITG3200_DF_FS_SEL_BIT == 4
ITG3200_DF_FS_SEL_LENGTH == 2
\* DLPF_CFG placed one bit too high, over the low bit of FS_SEL
ITG3200_DF_DLPF_CFG_BIT_Overlapping == 2 + 1

ITG3200_DF_DLPF_CFG_BIT == 2
ITG3200_DF_DLPF_CFG_LENGTH == 3

ITG3200_FULLSCALE_2000 == 3

ITG3200_INTCFG_ACTL_BIT == 7
ITG3200_INTCFG_OPEN_BIT == 6
ITG3200_INTCFG_LATCH_INT_EN_BIT == 5
ITG3200_INTCFG_INT_ANYRD_2CLEAR_BIT == 4
ITG3200_INTCFG_ITG_RDY_EN_BIT == 2
ITG3200_INTCFG_RAW_RDY_EN_BIT == 0

ITG3200_INTSTAT_ITG_RDY_BIT == 2
ITG3200_INTSTAT_RAW_DATA_READY_BIT == 0

\* the reset bit numbered from 1 instead of 0
ITG3200_PWR_H_RESET_BIT_FromOne == 7 + 1

ITG3200_PWR_H_RESET_BIT == 7
ITG3200_PWR_SLEEP_BIT == 6
ITG3200_PWR_STBY_XG_BIT == 5
ITG3200_PWR_STBY_YG_BIT == 4
ITG3200_PWR_STBY_ZG_BIT == 3
ITG3200_PWR_CLK_SEL_BIT == 2
ITG3200_PWR_CLK_SEL_LENGTH == 3

ITG3200_CLOCK_PLL_XGYRO == 1

\* size of the shared buffer: unsigned char ITG3200Buffer[6]
BufferLen == 6

\* a bit-field descriptor: register, most significant bit, width
Field(name, reg, bitStart, length) ==
    [name |-> name, reg |-> reg, bit |-> bitStart, len |-> length]

\* the bit-field layout of the header
Fields ==
    { Field("DEVID", ITG3200_RA_WHO_AM_I, ITG3200_DEVID_BIT,
            ITG3200_DEVID_LENGTH),
      Field("FS_SEL", ITG3200_RA_DLPF_FS, ITG3200_DF_FS_SEL_BIT,
            ITG3200_DF_FS_SEL_LENGTH),
      Field("DLPF_CFG", ITG3200_RA_DLPF_FS, ITG3200_DF_DLPF_CFG_BIT,
            ITG3200_DF_DLPF_CFG_LENGTH),
      Field("ACTL", ITG3200_RA_INT_CFG, ITG3200_INTCFG_ACTL_BIT, 1),
      Field("OPEN", ITG3200_RA_INT_CFG, ITG3200_INTCFG_OPEN_BIT, 1),
      Field("LATCH_INT_EN", ITG3200_RA_INT_CFG,
            ITG3200_INTCFG_LATCH_INT_EN_BIT, 1),
      Field("INT_ANYRD_2CLEAR", ITG3200_RA_INT_CFG,
            ITG3200_INTCFG_INT_ANYRD_2CLEAR_BIT, 1),
      Field("ITG_RDY_EN", ITG3200_RA_INT_CFG,
            ITG3200_INTCFG_ITG_RDY_EN_BIT, 1),
      Field("RAW_RDY_EN", ITG3200_RA_INT_CFG,
            ITG3200_INTCFG_RAW_RDY_EN_BIT, 1),
      Field("ITG_RDY", ITG3200_RA_INT_STATUS,
            ITG3200_INTSTAT_ITG_RDY_BIT, 1),
      Field("RAW_DATA_READY", ITG3200_RA_INT_STATUS,
            ITG3200_INTSTAT_RAW_DATA_READY_BIT, 1),
      Field("H_RESET", ITG3200_RA_PWR_MGM, ITG3200_PWR_H_RESET_BIT, 1),
      Field("SLEEP", ITG3200_RA_PWR_MGM, ITG3200_PWR_SLEEP_BIT, 1),
      Field("STBY_XG", ITG3200_RA_PWR_MGM, ITG3200_PWR_STBY_XG_BIT, 1),
      Field("STBY_YG", ITG3200_RA_PWR_MGM, ITG3200_PWR_STBY_YG_BIT, 1),
      Field("STBY_ZG", ITG3200_RA_PWR_MGM, ITG3200_PWR_STBY_ZG_BIT, 1),
      Field("CLK_SEL", ITG3200_RA_PWR_MGM, ITG3200_PWR_CLK_SEL_BIT,
            ITG3200_PWR_CLK_SEL_LENGTH) }

\* the field of the header with the given name
FieldNamed(name) == CHOOSE f \in Fields : f.name = name

\* the bits a field covers: from its most significant bit downwards
Span(f) == (f.bit - f.len + 1)..f.bit


(***************************************************************************)
(* Value domains.                                                          *)
(***************************************************************************)
\* unsigned char
Byte == 0..255

\* bool / boolean arguments and results, as the integers 0 and 1
BoolValues == {0, 1}

\* the registers the driver addresses
RegAddrs ==
    {ITG3200_RA_WHO_AM_I, ITG3200_RA_SMPLRT_DIV, ITG3200_RA_DLPF_FS,
     ITG3200_RA_INT_CFG, ITG3200_RA_INT_STATUS,
     ITG3200_RA_TEMP_OUT_H, ITG3200_RA_TEMP_OUT_L,
     ITG3200_RA_GYRO_XOUT_H, ITG3200_RA_GYRO_XOUT_L,
     ITG3200_RA_GYRO_YOUT_H, ITG3200_RA_GYRO_YOUT_L,
     ITG3200_RA_GYRO_ZOUT_H, ITG3200_RA_GYRO_ZOUT_L,
     ITG3200_RA_PWR_MGM}

\* the registers the driver writes
ConfigRegs ==
    {ITG3200_RA_WHO_AM_I, ITG3200_RA_SMPLRT_DIV, ITG3200_RA_DLPF_FS,
     ITG3200_RA_INT_CFG, ITG3200_RA_PWR_MGM}

\* the sensor output registers, TEMP_OUT_H .. GYRO_ZOUT_L
SensorRegs == ITG3200_RA_TEMP_OUT_H..ITG3200_RA_GYRO_ZOUT_L

\* byte arguments tried in Spec: in range and wider than every field
ArgValues == {0, 1, 6, 165, 255}

\* prior contents of the configuration registers tried in Init
RegPatterns == {0, 165, 255}

\* prior contents of the configuration registers tried in InitField
FieldPatterns == {0, 15, 51, 85, 90, 102, 150, 165, 170, 204, 240, 255}

\* contents of the eight sensor registers tried in Init
SensorImages ==
    { <<0, 0, 127, 255, 128, 0, 255, 255>>,
      <<128, 0, 255, 255, 0, 0, 127, 255>> }

\* the widths of the C type int the driver can be built with
IntWidths == {16, 32}

\* what a getter can hand back after its bus read failed
JunkBytes == {0, 255}

(***************************************************************************)
(* Bit operations of C on non-negative integers.                           *)
(***************************************************************************)
RECURSIVE BitAnd(_, _)
BitAnd(a, b) ==
    IF a = 0 \/ b = 0 THEN 0
    ELSE (a % 2) * (b % 2) + 2 * BitAnd(a \div 2, b \div 2)

RECURSIVE BitOr(_, _)
BitOr(a, b) ==
    IF a = 0 THEN b
    ELSE IF b = 0 THEN a
    ELSE (IF a % 2 = 1 \/ b % 2 = 1 THEN 1 ELSE 0)
         + 2 * BitOr(a \div 2, b \div 2)

\* ~a restricted to one byte
BitNot8(a) == 255 - (a % 256)

\* a << n
Shl(a, n) == a * (2 ^ n)

\* a >> n
Shr(a, n) == a \div (2 ^ n)

\* bit i of byte b
BitOf(b, i) == Shr(b, i) % 2

\* the low w bits of the non-negative u read as a two's-complement integer:
\* bit w-1 weighs -2^(w-1) (written with 2^(w-2), which fits the checker's
\* integers for w = 32)
AsSigned(u, w) ==
    LET q == 2 ^ (w - 2)
        low == u % q
        next == Shr(u, w - 2) % 2
        sign == Shr(Shr(u, w - 2), 1) % 2
    IN  low + next * q - sign * q - sign * q

(***************************************************************************)
(* A driver run: the registers, the shared buffer, the transactions        *)
(* issued so far in this call, and the result of the last accessor call.   *)
(***************************************************************************)
StartRun(r, b) ==
    [regs |-> r, buf |-> b, bus |-> <<>>, acc |-> <<>>, ok |-> TRUE, val |-> 0]

\* the run after noting that a bit-field accessor was called on the field
\* (reg, bitStart, length)
Accessed(d, reg, bitStart, length) ==
    [d EXCEPT !.acc = Append(@, [reg |-> reg, bit |-> bitStart,
                                 len |-> length])]

\* whether the next transaction of the run succeeds: io.oks gives the
\* outcome of the k-th transaction attempted in the call
NextOk(d, io) == io.oks[Len(d.bus) + 1]

(***************************************************************************)
(* Bus transport and bit-field accessors (I2CDeviceReadBit and the like):   *)
(* the driver calls them, their code is not in the two driver files; they  *)
(* follow sections 4.1, 6 and 7 of the specification.                      *)
(***************************************************************************)
\* single byte read: one transaction; a failed read yields no register data
I2CDeviceReadByte(d, io, reg) ==
    LET ok == NextOk(d, io)
    IN  [d EXCEPT !.bus = Append(@, [kind |-> "read", reg |-> reg,
                                     n |-> 1,
                                     data |-> IF ok THEN d.regs[reg] ELSE 0,
                                     ok |-> ok]),
                  !.ok = ok,
                  !.val = IF ok THEN d.regs[reg] ELSE io.junk]

\* single byte write: one transaction; a failed write leaves the register
I2CDeviceWriteByte(d, io, reg, value) ==
    LET ok == NextOk(d, io)
    IN  [d EXCEPT !.bus = Append(@, [kind |-> "write", reg |-> reg,
                                     n |-> 1, data |-> value % 256,
                                     ok |-> ok]),
                  !.regs = IF ok THEN [d.regs EXCEPT ![reg] = value % 256]
                           ELSE d.regs,
                  !.ok = ok,
                  !.val = 0]

\* readBit: one byte read, then test bit bitNum
I2CDeviceReadBit(d, io, reg, bitNum) ==
    LET r == I2CDeviceReadByte(Accessed(d, reg, bitNum, 1), io, reg)
    IN  IF r.ok
        THEN [r EXCEPT !.val = IF BitAnd(r.val, Shl(1, bitNum)) # 0
                               THEN 1 ELSE 0]
        ELSE r

\* readBits: one byte read, then shift and mask the field whose most
\* significant bit is bitStart
I2CDeviceReadBits(d, io, reg, bitStart, length) ==
    LET r == I2CDeviceReadByte(Accessed(d, reg, bitStart, length), io, reg)
        shift == bitStart - length + 1
        mask == Shl(Shl(1, length) - 1, shift)
    IN  IF r.ok
        THEN [r EXCEPT !.val = Shr(BitAnd(r.val, mask), shift)]
        ELSE r

\* writeBit: read-modify-write of one bit; no write when the read failed
I2CDeviceWriteBit(d, io, reg, bitNum, value) ==
    LET r == I2CDeviceReadByte(Accessed(d, reg, bitNum, 1), io, reg)
        b == IF value # 0
             THEN BitOr(r.val, Shl(1, bitNum))
             ELSE BitAnd(r.val, BitNot8(Shl(1, bitNum)))
    IN  IF r.ok THEN I2CDeviceWriteByte(r, io, reg, b) ELSE r

\* writeBits: read-modify-write of a field; the value is shifted into
\* place and masked to the field; no write when the read failed
I2CDeviceWriteBits(d, io, reg, bitStart, length, value) ==
    LET r == I2CDeviceReadByte(Accessed(d, reg, bitStart, length), io, reg)
        shift == bitStart - length + 1
        mask == Shl(Shl(1, length) - 1, shift)
        v == BitAnd(Shl(value, shift), mask)
        b == BitOr(BitAnd(r.val, BitNot8(mask)), v)
    IN  IF r.ok THEN I2CDeviceWriteByte(r, io, reg, b) ELSE r

\* readBytes: one burst transaction of count consecutive registers into
\* the buffer; a failed burst delivers nothing
I2CDeviceReadBytes(d, io, reg, count) ==
    LET ok == NextOk(d, io)
    IN  [d EXCEPT !.bus = Append(@, [kind |-> "burst", reg |-> reg,
                                     n |-> count, data |-> 0, ok |-> ok]),
                  !.buf = IF ok
                          THEN [i \in 1..BufferLen |->
                                  IF i <= count THEN d.regs[reg + i - 1]
                                  ELSE d.buf[i]]
                          ELSE d.buf,
                  !.ok = ok,
                  !.val = 0]


(***************************************************************************)
(* State.                                                                  *)
(***************************************************************************)
VARIABLES
    regs,           \* content of the device registers, by address
    ITG3200Buffer,  \* unsigned char ITG3200Buffer[6], indexed from 1
    intWidth,       \* width in bits of the C type int in this build
    bus,            \* the bus transactions issued by the last driver call
    call,           \* the last driver call: name, argument, return value,
                    \* bit-field accesses, registers and buffer before it
    calls,          \* number of driver calls made
    last,           \* name and argument of the call before the last one
                    \* (tracked in SpecField only)
    callers         \* the callers that run sensor reads without
                    \* serialization, each with its position in its read
                    \* (SpecRace only)

vars == <<regs, ITG3200Buffer, intWidth, bus, call, calls, last, callers>>

\* number of callers that share the device
NumCallers == 2

Callers == 1..NumCallers

\* a byte of the buffer that a decode has not loaded yet
NotLoaded == -1

\* a caller outside a sensor read
IdleCaller ==
    [pc |-> "idle", op |-> "none", own |-> <<>>, got |-> <<>>,
     ret |-> <<>>, raced |-> FALSE]

NoCall ==
    [op |-> "none", arg |-> <<>>, ret |-> <<>>, acc |-> <<>>,
     pre |-> [r \in RegAddrs |-> 0], preBuf |-> [i \in 1..BufferLen |-> 0],
     reported |-> FALSE]

NoLast == [op |-> "none", arg |-> <<>>]

\* registers holding pattern p in every configuration register, status s
\* in INT_STATUS and the image img in the sensor registers
RegImage(p, s, img) ==
    [r \in RegAddrs |->
        IF r \in ConfigRegs THEN p
        ELSE IF r = ITG3200_RA_INT_STATUS THEN s
        ELSE img[r - ITG3200_RA_TEMP_OUT_H + 1]]

\* The driver has no constructor: the buffer is a zero-initialised global,
\* the registers hold whatever the device holds when the driver is first
\* used.
Init ==
    /\ \/ \E p \in RegPatterns :
             regs = RegImage(p, 0, <<18, 52, 86, 120, 154, 188, 222, 240>>)
       \/ \E img \in SensorImages : regs = RegImage(0, 5, img)
    /\ ITG3200Buffer = [i \in 1..BufferLen |-> 0]
    /\ intWidth \in IntWidths
    /\ bus = <<>>
    /\ call = NoCall
    /\ calls = 0
    /\ last = NoLast
    /\ callers = [c \in Callers |-> IdleCaller]

(***************************************************************************)
(* Inputs of a call: the outcome of each bus transaction it attempts, the   *)
(* byte a failed read hands back, and whether the model keeps the previous *)
(* call in the variable last.                                              *)
(***************************************************************************)
\* every outcome of a call that attempts at most n transactions
Outcomes(n) ==
    {[oks |-> o, junk |-> 0, track |-> FALSE] : o \in [1..n -> BOOLEAN]}

\* every outcome of a call that makes one read and returns its value
ReadOutcomes ==
    {[oks |-> <<TRUE>>, junk |-> 0, track |-> FALSE]}
        \cup {[oks |-> <<FALSE>>, junk |-> j, track |-> FALSE] : j \in JunkBytes}

\* SpecField: the bus never fails, the calls come in the order of
\* FieldOrder, and a call is remembered when the next one is made
Reliable == [oks |-> <<TRUE, TRUE, TRUE, TRUE>>, junk |-> 0, track |-> TRUE]

\* the sensor reads and the register their burst starts at
SensorStart ==
    [ITG3200GetTemperature |-> 27, ITG3200GetRotation |-> 29,
     ITG3200GetRotationX |-> 29, ITG3200GetRotationY |-> 31,
     ITG3200GetRotationZ |-> 33]

SensorOps == DOMAIN SensorStart

\* the getters, the interrupt-status reads and the sensor reads
ReadOps ==
    {"ITG3200GetDeviceID", "ITG3200GetRate", "ITG3200GetFullScaleRange",
     "ITG3200GetDLPFBandwidth", "ITG3200GetClockSource",
     "ITG3200GetInterruptMode", "ITG3200getInterruptDrive",
     "ITG3200GetInterruptLatch", "ITG3200GetInterruptLatchClear",
     "ITG3200GetIntDeviceReadyEnabled", "ITG3200GetIntDataReadyEnabled",
     "ITG3200GetIntDeviceReadyStatus", "ITG3200GetIntDataReadyStatus",
     "ITG3200GetSleepEnabled", "ITG3200GetStandbyXEnabled",
     "ITG3200GetStandbyYEnabled", "ITG3200GetStandbyZEnabled"}
        \cup SensorOps

\* the order of calls in SpecField: a setter or the initialisation first,
\* then a read
FieldOrder(name) ==
    \/ calls = 0 /\ name \notin ReadOps
    \/ calls = 1 /\ name \in ReadOps

\* a further driver call fits the bound
CanCall == calls < MaxCalls

\* the run a driver function starts from
Run == StartRun(regs, ITG3200Buffer)

\* A driver function returns: the device and the buffer are as the run left
\* them.  No driver function has an error result (setters return void,
\* getters return the value), so nothing is ever reported to the caller.
Return(name, arg, ret, d, io) ==
    /\ io.track => FieldOrder(name)
    /\ regs' = d.regs
    /\ ITG3200Buffer' = d.buf
    /\ bus' = d.bus
    /\ call' = [op |-> name, arg |-> arg, ret |-> ret, acc |-> d.acc,
                pre |-> regs, preBuf |-> ITG3200Buffer, reported |-> FALSE]
    /\ calls' = calls + 1
    /\ last' = IF io.track THEN [op |-> call.op, arg |-> call.arg]
               ELSE NoLast
    /\ UNCHANGED <<intWidth, callers>>

\* (((int) hi) << 8) | lo, as an int of w bits; where the shift reaches the
\* sign bit of a 16-bit int the result is the wrapped value compilers give
DecodeInt(hi, lo, w) == AsSigned(BitOr(Shl(hi, 8), lo), w)

(***************************************************************************)
(* Driver functions, src/Common/ITG3200.c.                                 *)
(***************************************************************************)
DoSetFullScaleRange(d, io, range) ==
    I2CDeviceWriteBits(d, io, ITG3200_RA_DLPF_FS, ITG3200_DF_FS_SEL_BIT,
                       ITG3200_DF_FS_SEL_LENGTH, range)

DoSetClockSource(d, io, source) ==
    I2CDeviceWriteBits(d, io, ITG3200_RA_PWR_MGM, ITG3200_PWR_CLK_SEL_BIT,
                       ITG3200_PWR_CLK_SEL_LENGTH, source)

\* the two setters in the opposite order
DoInitialize_ClockFirst(d, io) ==
    DoSetFullScaleRange(DoSetClockSource(d, io, ITG3200_CLOCK_PLL_XGYRO),
                        io, ITG3200_FULLSCALE_2000)

\* the two setters one after the other; the result of the first is not
\* looked at
DoInitialize(d, io) ==
    DoSetClockSource(DoSetFullScaleRange(d, io, ITG3200_FULLSCALE_2000),
                     io, ITG3200_CLOCK_PLL_XGYRO)

ITG3200Initialize(io) ==
    /\ CanCall
    /\ Return("ITG3200Initialize", <<>>, <<>>, DoInitialize(Run, io), io)

ITG3200GetDeviceID(io) ==
    /\ CanCall
    /\ LET d == I2CDeviceReadBits(Run, io, ITG3200_RA_WHO_AM_I,
                                  ITG3200_DEVID_BIT, ITG3200_DEVID_LENGTH)
       IN  Return("ITG3200GetDeviceID", <<>>, <<d.val>>, d, io)

ITG3200SetDeviceID(id, io) ==
    /\ CanCall
    /\ Return("ITG3200SetDeviceID", <<id>>, <<>>,
              I2CDeviceWriteBits(Run, io, ITG3200_RA_WHO_AM_I,
                                 ITG3200_DEVID_BIT, ITG3200_DEVID_LENGTH, id), io)

ITG3200GetRate(io) ==
    /\ CanCall
    /\ LET d == I2CDeviceReadByte(Run, io, ITG3200_RA_SMPLRT_DIV)
       IN  Return("ITG3200GetRate", <<>>, <<d.val>>, d, io)

ITG3200SetRate(rate, io) ==
    /\ CanCall
    /\ Return("ITG3200SetRate", <<rate>>, <<>>,
              I2CDeviceWriteByte(Run, io, ITG3200_RA_SMPLRT_DIV, rate), io)

ITG3200GetFullScaleRange(io) ==
    /\ CanCall
    /\ LET d == I2CDeviceReadBits(Run, io, ITG3200_RA_DLPF_FS,
                                  ITG3200_DF_FS_SEL_BIT,
                                  ITG3200_DF_FS_SEL_LENGTH)
       IN  Return("ITG3200GetFullScaleRange", <<>>, <<d.val>>, d, io)

ITG3200SetFullScaleRange(range, io) ==
    /\ CanCall
    /\ Return("ITG3200SetFullScaleRange", <<range>>, <<>>,
              DoSetFullScaleRange(Run, io, range), io)

\* the getter copied from the full-scale getter with its field left as is
ITG3200GetDLPFBandwidth_WrongField(io) ==
    /\ CanCall
    /\ LET d == I2CDeviceReadBits(Run, io, ITG3200_RA_DLPF_FS,
                                  ITG3200_DF_FS_SEL_BIT,
                                  ITG3200_DF_FS_SEL_LENGTH)
       IN  Return("ITG3200GetDLPFBandwidth", <<>>, <<d.val>>, d, io)

ITG3200GetDLPFBandwidth(io) ==
    /\ CanCall
    /\ LET d == I2CDeviceReadBits(Run, io, ITG3200_RA_DLPF_FS,
                                  ITG3200_DF_DLPF_CFG_BIT,
                                  ITG3200_DF_DLPF_CFG_LENGTH)
       IN  Return("ITG3200GetDLPFBandwidth", <<>>, <<d.val>>, d, io)

ITG3200SetDLPFBandwidth(bandwidth, io) ==
    /\ CanCall
    /\ Return("ITG3200SetDLPFBandwidth", <<bandwidth>>, <<>>,
              I2CDeviceWriteBits(Run, io, ITG3200_RA_DLPF_FS,
                                 ITG3200_DF_DLPF_CFG_BIT,
                                 ITG3200_DF_DLPF_CFG_LENGTH, bandwidth), io)

ITG3200GetInterruptMode(io) ==
    /\ CanCall
    /\ LET d == I2CDeviceReadBit(Run, io, ITG3200_RA_INT_CFG,
                                 ITG3200_INTCFG_ACTL_BIT)
       IN  Return("ITG3200GetInterruptMode", <<>>, <<d.val>>, d, io)

ITG3200SetInterruptMode(mode, io) ==
    /\ CanCall
    /\ Return("ITG3200SetInterruptMode", <<mode>>, <<>>,
              I2CDeviceWriteBit(Run, io, ITG3200_RA_INT_CFG,
                                ITG3200_INTCFG_ACTL_BIT, mode), io)

ITG3200getInterruptDrive(io) ==
    /\ CanCall
    /\ LET d == I2CDeviceReadBit(Run, io, ITG3200_RA_INT_CFG,
                                 ITG3200_INTCFG_OPEN_BIT)
       IN  Return("ITG3200getInterruptDrive", <<>>, <<d.val>>, d, io)

\* the setter copied from the mode setter with its bit left as is
ITG3200SetInterruptDrive_WrongBit(drive, io) ==
    /\ CanCall
    /\ Return("ITG3200SetInterruptDrive", <<drive>>, <<>>,
              I2CDeviceWriteBit(Run, io, ITG3200_RA_INT_CFG,
                                ITG3200_INTCFG_ACTL_BIT, drive), io)

ITG3200SetInterruptDrive(drive, io) ==
    /\ CanCall
    /\ Return("ITG3200SetInterruptDrive", <<drive>>, <<>>,
              I2CDeviceWriteBit(Run, io, ITG3200_RA_INT_CFG,
                                ITG3200_INTCFG_OPEN_BIT, drive), io)

ITG3200GetInterruptLatch(io) ==
    /\ CanCall
    /\ LET d == I2CDeviceReadBit(Run, io, ITG3200_RA_INT_CFG,
                                 ITG3200_INTCFG_LATCH_INT_EN_BIT)
       IN  Return("ITG3200GetInterruptLatch", <<>>, <<d.val>>, d, io)

ITG3200SetInterruptLatch(latch, io) ==
    /\ CanCall
    /\ Return("ITG3200SetInterruptLatch", <<latch>>, <<>>,
              I2CDeviceWriteBit(Run, io, ITG3200_RA_INT_CFG,
                                ITG3200_INTCFG_LATCH_INT_EN_BIT, latch), io)

ITG3200GetInterruptLatchClear(io) ==
    /\ CanCall
    /\ LET d == I2CDeviceReadBit(Run, io, ITG3200_RA_INT_CFG,
                                 ITG3200_INTCFG_INT_ANYRD_2CLEAR_BIT)
       IN  Return("ITG3200GetInterruptLatchClear", <<>>, <<d.val>>, d, io)

ITG3200SetInterruptLatchClear(clear, io) ==
    /\ CanCall
    /\ Return("ITG3200SetInterruptLatchClear", <<clear>>, <<>>,
              I2CDeviceWriteBit(Run, io, ITG3200_RA_INT_CFG,
                                ITG3200_INTCFG_INT_ANYRD_2CLEAR_BIT, clear), io)

ITG3200GetIntDeviceReadyEnabled(io) ==
    /\ CanCall
    /\ LET d == I2CDeviceReadBit(Run, io, ITG3200_RA_INT_CFG,
                                 ITG3200_INTCFG_ITG_RDY_EN_BIT)
       IN  Return("ITG3200GetIntDeviceReadyEnabled", <<>>, <<d.val>>, d, io)

ITG3200SetIntDeviceReadyEnabled(enabled, io) ==
    /\ CanCall
    /\ Return("ITG3200SetIntDeviceReadyEnabled", <<enabled>>, <<>>,
              I2CDeviceWriteBit(Run, io, ITG3200_RA_INT_CFG,
                                ITG3200_INTCFG_ITG_RDY_EN_BIT, enabled), io)

ITG3200GetIntDataReadyEnabled(io) ==
    /\ CanCall
    /\ LET d == I2CDeviceReadBit(Run, io, ITG3200_RA_INT_CFG,
                                 ITG3200_INTCFG_RAW_RDY_EN_BIT)
       IN  Return("ITG3200GetIntDataReadyEnabled", <<>>, <<d.val>>, d, io)

ITG3200SetIntDataReadyEnabled(enabled, io) ==
    /\ CanCall
    /\ Return("ITG3200SetIntDataReadyEnabled", <<enabled>>, <<>>,
              I2CDeviceWriteBit(Run, io, ITG3200_RA_INT_CFG,
                                ITG3200_INTCFG_RAW_RDY_EN_BIT, enabled), io)

ITG3200GetIntDeviceReadyStatus(io) ==
    /\ CanCall
    /\ LET d == I2CDeviceReadBit(Run, io, ITG3200_RA_INT_STATUS,
                                 ITG3200_INTSTAT_ITG_RDY_BIT)
       IN  Return("ITG3200GetIntDeviceReadyStatus", <<>>, <<d.val>>, d, io)

\* the status read that also clears the status register it read
ITG3200GetIntDataReadyStatus_Clearing(io) ==
    /\ CanCall
    /\ LET d == I2CDeviceReadBit(Run, io, ITG3200_RA_INT_STATUS,
                                 ITG3200_INTSTAT_RAW_DATA_READY_BIT)
           e == I2CDeviceWriteByte(d, Reliable, ITG3200_RA_INT_STATUS, 0)
       IN  Return("ITG3200GetIntDataReadyStatus", <<>>, <<d.val>>, e, io)

ITG3200GetIntDataReadyStatus(io) ==
    /\ CanCall
    /\ LET d == I2CDeviceReadBit(Run, io, ITG3200_RA_INT_STATUS,
                                 ITG3200_INTSTAT_RAW_DATA_READY_BIT)
       IN  Return("ITG3200GetIntDataReadyStatus", <<>>, <<d.val>>, d, io)

ITG3200GetTemperature(io) ==
    /\ CanCall
    /\ LET d == I2CDeviceReadBytes(Run, io, ITG3200_RA_TEMP_OUT_H, 2)
       IN  Return("ITG3200GetTemperature", <<>>,
                  <<DecodeInt(d.buf[1], d.buf[2], intWidth)>>, d, io)

ITG3200GetRotation(io) ==
    /\ CanCall
    /\ LET d == I2CDeviceReadBytes(Run, io, ITG3200_RA_GYRO_XOUT_H, 6)
       IN  Return("ITG3200GetRotation", <<>>,
                  <<DecodeInt(d.buf[1], d.buf[2], intWidth),
                    DecodeInt(d.buf[3], d.buf[4], intWidth),
                    DecodeInt(d.buf[5], d.buf[6], intWidth)>>, d, io)

ITG3200GetRotationX(io) ==
    /\ CanCall
    /\ LET d == I2CDeviceReadBytes(Run, io, ITG3200_RA_GYRO_XOUT_H, 2)
       IN  Return("ITG3200GetRotationX", <<>>,
                  <<DecodeInt(d.buf[1], d.buf[2], intWidth)>>, d, io)

\* the Y read copied from the X read with its start register left as is
ITG3200GetRotationY_ReadsX(io) ==
    /\ CanCall
    /\ LET d == I2CDeviceReadBytes(Run, io, ITG3200_RA_GYRO_XOUT_H, 2)
       IN  Return("ITG3200GetRotationY", <<>>,
                  <<DecodeInt(d.buf[1], d.buf[2], intWidth)>>, d, io)

ITG3200GetRotationY(io) ==
    /\ CanCall
    /\ LET d == I2CDeviceReadBytes(Run, io, ITG3200_RA_GYRO_YOUT_H, 2)
       IN  Return("ITG3200GetRotationY", <<>>,
                  <<DecodeInt(d.buf[1], d.buf[2], intWidth)>>, d, io)

ITG3200GetRotationZ(io) ==
    /\ CanCall
    /\ LET d == I2CDeviceReadBytes(Run, io, ITG3200_RA_GYRO_ZOUT_H, 2)
       IN  Return("ITG3200GetRotationZ", <<>>,
                  <<DecodeInt(d.buf[1], d.buf[2], intWidth)>>, d, io)

ITG3200Reset(io) ==
    /\ CanCall
    /\ Return("ITG3200Reset", <<>>, <<>>,
              I2CDeviceWriteBit(Run, io, ITG3200_RA_PWR_MGM,
                                ITG3200_PWR_H_RESET_BIT, 1), io)

ITG3200GetSleepEnabled(io) ==
    /\ CanCall
    /\ LET d == I2CDeviceReadBit(Run, io, ITG3200_RA_PWR_MGM,
                                 ITG3200_PWR_SLEEP_BIT)
       IN  Return("ITG3200GetSleepEnabled", <<>>, <<d.val>>, d, io)

ITG3200SetSleepEnabled(enabled, io) ==
    /\ CanCall
    /\ Return("ITG3200SetSleepEnabled", <<enabled>>, <<>>,
              I2CDeviceWriteBit(Run, io, ITG3200_RA_PWR_MGM,
                                ITG3200_PWR_SLEEP_BIT, enabled), io)

ITG3200GetStandbyXEnabled(io) ==
    /\ CanCall
    /\ LET d == I2CDeviceReadBit(Run, io, ITG3200_RA_PWR_MGM,
                                 ITG3200_PWR_STBY_XG_BIT)
       IN  Return("ITG3200GetStandbyXEnabled", <<>>, <<d.val>>, d, io)

ITG3200SetStandbyXEnabled(enabled, io) ==
    /\ CanCall
    /\ Return("ITG3200SetStandbyXEnabled", <<enabled>>, <<>>,
              I2CDeviceWriteBit(Run, io, ITG3200_RA_PWR_MGM,
                                ITG3200_PWR_STBY_XG_BIT, enabled), io)

ITG3200GetStandbyYEnabled(io) ==
    /\ CanCall
    /\ LET d == I2CDeviceReadBit(Run, io, ITG3200_RA_PWR_MGM,
                                 ITG3200_PWR_STBY_YG_BIT)
       IN  Return("ITG3200GetStandbyYEnabled", <<>>, <<d.val>>, d, io)

ITG3200SetStandbyYEnabled(enabled, io) ==
    /\ CanCall
    /\ Return("ITG3200SetStandbyYEnabled", <<enabled>>, <<>>,
              I2CDeviceWriteBit(Run, io, ITG3200_RA_PWR_MGM,
                                ITG3200_PWR_STBY_YG_BIT, enabled), io)

ITG3200GetStandbyZEnabled(io) ==
    /\ CanCall
    /\ LET d == I2CDeviceReadBit(Run, io, ITG3200_RA_PWR_MGM,
                                 ITG3200_PWR_STBY_ZG_BIT)
       IN  Return("ITG3200GetStandbyZEnabled", <<>>, <<d.val>>, d, io)

ITG3200SetStandbyZEnabled(enabled, io) ==
    /\ CanCall
    /\ Return("ITG3200SetStandbyZEnabled", <<enabled>>, <<>>,
              I2CDeviceWriteBit(Run, io, ITG3200_RA_PWR_MGM,
                                ITG3200_PWR_STBY_ZG_BIT, enabled), io)

ITG3200GetClockSource(io) ==
    /\ CanCall
    /\ LET d == I2CDeviceReadBits(Run, io, ITG3200_RA_PWR_MGM,
                                  ITG3200_PWR_CLK_SEL_BIT,
                                  ITG3200_PWR_CLK_SEL_LENGTH)
       IN  Return("ITG3200GetClockSource", <<>>, <<d.val>>, d, io)

ITG3200SetClockSource(source, io) ==
    /\ CanCall
    /\ Return("ITG3200SetClockSource", <<source>>, <<>>,
              DoSetClockSource(Run, io, source), io)

(***************************************************************************)
(* Specifications.                                                         *)
(***************************************************************************)
\* the setters, with byte arguments from V and bus outcomes from IO
Setters(V, IO) ==
    \/ \E v \in V, io \in IO : ITG3200SetDeviceID(v, io)
    \/ \E v \in V, io \in IO : ITG3200SetRate(v, io)
    \/ \E v \in V, io \in IO : ITG3200SetFullScaleRange(v, io)
    \/ \E v \in V, io \in IO : ITG3200SetDLPFBandwidth(v, io)
    \/ \E v \in V, io \in IO : ITG3200SetClockSource(v, io)
    \/ \E b \in BoolValues, io \in IO : ITG3200SetInterruptMode(b, io)
    \/ \E b \in BoolValues, io \in IO : ITG3200SetInterruptDrive(b, io)
    \/ \E b \in BoolValues, io \in IO : ITG3200SetInterruptLatch(b, io)
    \/ \E b \in BoolValues, io \in IO : ITG3200SetInterruptLatchClear(b, io)
    \/ \E b \in BoolValues, io \in IO : ITG3200SetIntDeviceReadyEnabled(b, io)
    \/ \E b \in BoolValues, io \in IO : ITG3200SetIntDataReadyEnabled(b, io)
    \/ \E b \in BoolValues, io \in IO : ITG3200SetSleepEnabled(b, io)
    \/ \E b \in BoolValues, io \in IO : ITG3200SetStandbyXEnabled(b, io)
    \/ \E b \in BoolValues, io \in IO : ITG3200SetStandbyYEnabled(b, io)
    \/ \E b \in BoolValues, io \in IO : ITG3200SetStandbyZEnabled(b, io)
    \/ \E io \in IO : ITG3200Reset(io)

\* the getters of register fields, with bus outcomes from IO
Getters(IO) ==
    \/ \E io \in IO : ITG3200GetDeviceID(io)
    \/ \E io \in IO : ITG3200GetRate(io)
    \/ \E io \in IO : ITG3200GetFullScaleRange(io)
    \/ \E io \in IO : ITG3200GetDLPFBandwidth(io)
    \/ \E io \in IO : ITG3200GetClockSource(io)
    \/ \E io \in IO : ITG3200GetInterruptMode(io)
    \/ \E io \in IO : ITG3200getInterruptDrive(io)
    \/ \E io \in IO : ITG3200GetInterruptLatch(io)
    \/ \E io \in IO : ITG3200GetInterruptLatchClear(io)
    \/ \E io \in IO : ITG3200GetIntDeviceReadyEnabled(io)
    \/ \E io \in IO : ITG3200GetIntDataReadyEnabled(io)
    \/ \E io \in IO : ITG3200GetIntDeviceReadyStatus(io)
    \/ \E io \in IO : ITG3200GetIntDataReadyStatus(io)
    \/ \E io \in IO : ITG3200GetSleepEnabled(io)
    \/ \E io \in IO : ITG3200GetStandbyXEnabled(io)
    \/ \E io \in IO : ITG3200GetStandbyYEnabled(io)
    \/ \E io \in IO : ITG3200GetStandbyZEnabled(io)

\* the sensor reads, with bus outcomes from IO
SensorReads(IO) ==
    \/ \E io \in IO : ITG3200GetTemperature(io)
    \/ \E io \in IO : ITG3200GetRotation(io)
    \/ \E io \in IO : ITG3200GetRotationX(io)
    \/ \E io \in IO : ITG3200GetRotationY(io)
    \/ \E io \in IO : ITG3200GetRotationZ(io)

\* Spec: any driver call after any other, on a bus that can fail
Next ==
    \/ Setters(ArgValues, Outcomes(2))
    \/ Getters(ReadOutcomes)
    \/ SensorReads(Outcomes(1))
    \/ \E io \in Outcomes(4) : ITG3200Initialize(io)

Spec == Init /\ [][Next]_vars

\* SpecField: on a reliable bus, one setter (or the initialisation) with
\* any byte as argument and then one getter or sensor read
InitField ==
    /\ \E p \in FieldPatterns :
          regs = RegImage(p, 0, <<18, 52, 86, 120, 154, 188, 222, 240>>)
    /\ ITG3200Buffer = [i \in 1..BufferLen |-> 0]
    /\ intWidth = 16
    /\ bus = <<>>
    /\ call = NoCall
    /\ calls = 0
    /\ last = NoLast
    /\ callers = [c \in Callers |-> IdleCaller]

NextField ==
    \/ Setters(Byte, {Reliable})
    \/ ITG3200Initialize(Reliable)
    \/ Getters({Reliable})
    \/ SensorReads({Reliable})

SpecField == InitField /\ [][NextField]_vars

(***************************************************************************)
(* Sensor reads by callers that do not serialize their calls.  The driver  *)
(* has no lock, so a read is no longer one step: the burst transaction     *)
(* fills ITG3200Buffer, then the return expression loads the bytes of the  *)
(* buffer one at a time and combines them.  The two operands of | in       *)
(* (((int) ITG3200Buffer[i]) << 8) | ITG3200Buffer[i + 1] are loaded in    *)
(* either order; the three assignments of ITG3200GetRotation follow one    *)
(* another.  The bus is reliable here.                                     *)
(***************************************************************************)
InitRace ==
    /\ \E img \in SensorImages : regs = RegImage(0, 5, img)
    /\ ITG3200Buffer = [i \in 1..BufferLen |-> 0]
    /\ intWidth \in IntWidths
    /\ bus = <<>>
    /\ call = NoCall
    /\ calls = 0
    /\ last = NoLast
    /\ callers = [c \in Callers |-> IdleCaller]

\* caller c is between its burst read and the last load of its decode
Decoding(c) ==
    /\ callers[c].pc = "decode"
    /\ \E i \in DOMAIN callers[c].got : callers[c].got[i] = NotLoaded

\* caller c has made the burst read of n bytes that run d describes: the
\* buffer holds the bytes read, and every other caller still decoding has
\* had the buffer written under it
ReadBytesDone(c, name, n, d) ==
    /\ ITG3200Buffer' = d.buf
    /\ callers' =
          [o \in Callers |->
              IF o = c
              THEN [pc |-> "decode", op |-> name,
                    own |-> [i \in 1..n |-> d.buf[i]],
                    got |-> [i \in 1..n |-> NotLoaded],
                    ret |-> <<>>, raced |-> FALSE]
              ELSE IF Decoding(o)
                   THEN [callers[o] EXCEPT !.raced = TRUE]
                   ELSE callers[o]]
    /\ UNCHANGED <<regs, intWidth, bus, call, calls, last>>

ITG3200GetTemperature_ReadBytes(c) ==
    /\ callers[c].pc = "idle"
    /\ ReadBytesDone(c, "ITG3200GetTemperature", 2,
          I2CDeviceReadBytes(Run, Reliable, ITG3200_RA_TEMP_OUT_H, 2))

ITG3200GetRotation_ReadBytes(c) ==
    /\ callers[c].pc = "idle"
    /\ ReadBytesDone(c, "ITG3200GetRotation", 6,
          I2CDeviceReadBytes(Run, Reliable, ITG3200_RA_GYRO_XOUT_H, 6))

ITG3200GetRotationX_ReadBytes(c) ==
    /\ callers[c].pc = "idle"
    /\ ReadBytesDone(c, "ITG3200GetRotationX", 2,
          I2CDeviceReadBytes(Run, Reliable, ITG3200_RA_GYRO_XOUT_H, 2))

ITG3200GetRotationY_ReadBytes(c) ==
    /\ callers[c].pc = "idle"
    /\ ReadBytesDone(c, "ITG3200GetRotationY", 2,
          I2CDeviceReadBytes(Run, Reliable, ITG3200_RA_GYRO_YOUT_H, 2))

ITG3200GetRotationZ_ReadBytes(c) ==
    /\ callers[c].pc = "idle"
    /\ ReadBytesDone(c, "ITG3200GetRotationZ", 2,
          I2CDeviceReadBytes(Run, Reliable, ITG3200_RA_GYRO_ZOUT_H, 2))

\* the pair of buffer bytes, counted from 1, that byte i belongs to
PairOf(i) == (i + 1) \div 2

\* caller c loads ITG3200Buffer[i - 1] (C index) for its decode: a byte of
\* the first pair that is not loaded whole
ITG3200Buffer_Load_OtherByte(c, i) ==
    /\ callers[c].pc = "decode"
    /\ i \in DOMAIN callers[c].got
    /\ callers[c].got[i] = NotLoaded
    /\ \A j \in DOMAIN callers[c].got :
          PairOf(j) < PairOf(i) => callers[c].got[j] # NotLoaded
    /\ callers' = [callers EXCEPT ![c].got[i] =
                       ITG3200Buffer[IF i % 2 = 1 THEN i + 1 ELSE i - 1]]
    /\ UNCHANGED <<regs, ITG3200Buffer, intWidth, bus, call, calls, last>>

ITG3200Buffer_Load(c, i) ==
    /\ callers[c].pc = "decode"
    /\ i \in DOMAIN callers[c].got
    /\ callers[c].got[i] = NotLoaded
    /\ \A j \in DOMAIN callers[c].got :
          PairOf(j) < PairOf(i) => callers[c].got[j] # NotLoaded
    /\ callers' = [callers EXCEPT ![c].got[i] = ITG3200Buffer[i]]
    /\ UNCHANGED <<regs, ITG3200Buffer, intWidth, bus, call, calls, last>>

\* caller c has loaded every byte and returns the combined values
ITG3200Buffer_Decode(c) ==
    /\ callers[c].pc = "decode"
    /\ \A i \in DOMAIN callers[c].got : callers[c].got[i] # NotLoaded
    /\ callers' =
          [callers EXCEPT
              ![c].pc = "done",
              ![c].ret =
                  [k \in 1..(Len(callers[c].got) \div 2) |->
                      DecodeInt(callers[c].got[2 * k - 1],
                                callers[c].got[2 * k], intWidth)]]
    /\ UNCHANGED <<regs, ITG3200Buffer, intWidth, bus, call, calls, last>>

NextRace ==
    \/ \E c \in Callers : ITG3200GetTemperature_ReadBytes(c)
    \/ \E c \in Callers : ITG3200GetRotation_ReadBytes(c)
    \/ \E c \in Callers : ITG3200GetRotationX_ReadBytes(c)
    \/ \E c \in Callers : ITG3200GetRotationY_ReadBytes(c)
    \/ \E c \in Callers : ITG3200GetRotationZ_ReadBytes(c)
    \/ \E c \in Callers, i \in 1..BufferLen : ITG3200Buffer_Load(c, i)
    \/ \E c \in Callers : ITG3200Buffer_Decode(c)

SpecRace == InitRace /\ [][NextRace]_vars

(***************************************************************************)
(* Properties.                                                             *)
(***************************************************************************)
\* every transaction of the last call succeeded
BusOk == \A i \in 1..Len(bus) : bus[i].ok

\* some transaction of the last call failed
BusFailed == ~BusOk

\* the field each bit-field setter is meant to write
OwnField ==
    [ITG3200SetInterruptMode |-> FieldNamed("ACTL"),
     ITG3200SetInterruptDrive |-> FieldNamed("OPEN"),
     ITG3200SetInterruptLatch |-> FieldNamed("LATCH_INT_EN"),
     ITG3200SetInterruptLatchClear |-> FieldNamed("INT_ANYRD_2CLEAR"),
     ITG3200SetIntDeviceReadyEnabled |-> FieldNamed("ITG_RDY_EN"),
     ITG3200SetIntDataReadyEnabled |-> FieldNamed("RAW_RDY_EN"),
     ITG3200SetSleepEnabled |-> FieldNamed("SLEEP"),
     ITG3200SetStandbyXEnabled |-> FieldNamed("STBY_XG"),
     ITG3200SetStandbyYEnabled |-> FieldNamed("STBY_YG"),
     ITG3200SetStandbyZEnabled |-> FieldNamed("STBY_ZG"),
     ITG3200Reset |-> FieldNamed("H_RESET"),
     ITG3200SetFullScaleRange |-> FieldNamed("FS_SEL"),
     ITG3200SetDLPFBandwidth |-> FieldNamed("DLPF_CFG"),
     ITG3200SetClockSource |-> FieldNamed("CLK_SEL"),
     ITG3200SetDeviceID |-> FieldNamed("DEVID")]

\* the read-modify-write setters
BitFieldSetters == DOMAIN OwnField

\* bit i of register r is the same after the last call as before it
SameBit(r, i) == BitOf(regs[r], i) = BitOf(call.pre[r], i)

\* C1: a successful call of a bit-field setter, whatever the registers held
\* and whatever the argument, changes no bit outside its own field of its
\* own register and no other register.
C1_SetterFrame ==
    (call.op \in BitFieldSetters /\ BusOk) =>
        LET f == OwnField[call.op]
        IN  \A r \in RegAddrs : \A i \in 0..7 :
                (r # f.reg \/ i \notin Span(f)) => SameBit(r, i)

\* a setter given a value wider than its field has rewritten the field in
\* a register whose other bits were set: FS_SEL of 0xA5 becomes 0b11
C1_Witness ==
    /\ call.op = "ITG3200SetFullScaleRange"
    /\ call.arg = <<255>>
    /\ BusOk
    /\ call.pre[22] = 165
    /\ regs[22] = 189

\* the getter that matches each setter, and the width of their field
Pairs ==
    [ITG3200SetDeviceID |-> [get |-> "ITG3200GetDeviceID", len |-> 6],
     ITG3200SetRate |-> [get |-> "ITG3200GetRate", len |-> 8],
     ITG3200SetFullScaleRange |->
        [get |-> "ITG3200GetFullScaleRange", len |-> 2],
     ITG3200SetDLPFBandwidth |->
        [get |-> "ITG3200GetDLPFBandwidth", len |-> 3],
     ITG3200SetClockSource |-> [get |-> "ITG3200GetClockSource", len |-> 3],
     ITG3200SetInterruptMode |->
        [get |-> "ITG3200GetInterruptMode", len |-> 1],
     ITG3200SetInterruptDrive |->
        [get |-> "ITG3200getInterruptDrive", len |-> 1],
     ITG3200SetInterruptLatch |->
        [get |-> "ITG3200GetInterruptLatch", len |-> 1],
     ITG3200SetInterruptLatchClear |->
        [get |-> "ITG3200GetInterruptLatchClear", len |-> 1],
     ITG3200SetIntDeviceReadyEnabled |->
        [get |-> "ITG3200GetIntDeviceReadyEnabled", len |-> 1],
     ITG3200SetIntDataReadyEnabled |->
        [get |-> "ITG3200GetIntDataReadyEnabled", len |-> 1],
     ITG3200SetSleepEnabled |-> [get |-> "ITG3200GetSleepEnabled", len |-> 1],
     ITG3200SetStandbyXEnabled |->
        [get |-> "ITG3200GetStandbyXEnabled", len |-> 1],
     ITG3200SetStandbyYEnabled |->
        [get |-> "ITG3200GetStandbyYEnabled", len |-> 1],
     ITG3200SetStandbyZEnabled |->
        [get |-> "ITG3200GetStandbyZEnabled", len |-> 1]]

Channels(op) == IF op = "ITG3200GetRotation" THEN 3 ELSE 1

\* (hi << 8) | lo read as a 16-bit two's-complement integer
Signed16(hi, lo) ==
    IF hi * 256 + lo >= 32768 THEN hi * 256 + lo - 65536 ELSE hi * 256 + lo

\* C3: every value a successful sensor read returns is the 16-bit
\* two's-complement reading of the register pair (hi, lo) it read, and so
\* lies in -32768..32767.
C3_Signed16Decode ==
    (call.op \in SensorOps /\ BusOk) =>
        \A k \in 1..Channels(call.op) :
            LET hi == call.pre[SensorStart[call.op] + 2 * (k - 1)]
                lo == call.pre[SensorStart[call.op] + 2 * (k - 1) + 1]
            IN  /\ call.ret[k] = Signed16(hi, lo)
                /\ call.ret[k] \in -32768..32767

\* C4: on a bus that succeeds, ITG3200Initialize issues read 0x16,
\* write 0x16, read 0x3E, write 0x3E and nothing else; the first write
\* carries FS_SEL (bits 4..3) = 0b11, the second CLK_SEL (bits 2..0) =
\* 0b001, each with the other bits as they were; no other register changes.
C4_InitializeSequence ==
    (call.op = "ITG3200Initialize" /\ BusOk) =>
        /\ Len(bus) = 4
        /\ bus[1].kind = "read" /\ bus[1].reg = 22
        /\ bus[2].kind = "write" /\ bus[2].reg = 22
        /\ bus[3].kind = "read" /\ bus[3].reg = 62
        /\ bus[4].kind = "write" /\ bus[4].reg = 62
        /\ Shr(bus[2].data, 3) % 4 = 3
        /\ \A i \in (0..7) \ {3, 4} :
              BitOf(bus[2].data, i) = BitOf(call.pre[22], i)
        /\ bus[4].data % 8 = 1
        /\ \A i \in 3..7 : BitOf(bus[4].data, i) = BitOf(call.pre[62], i)
        /\ regs = [call.pre EXCEPT ![22] = bus[2].data, ![62] = bus[4].data]

\* the initialisation ran on registers whose other bits were set
C4_Witness ==
    /\ call.op = "ITG3200Initialize"
    /\ BusOk
    /\ call.pre[22] = 165 /\ call.pre[62] = 165
    /\ regs[22] = 189 /\ regs[62] = 161

\* the number of bytes each sensor read asks for
SensorCount(op) == IF op = "ITG3200GetRotation" THEN 6 ELSE 2

\* C5: a sensor read issues exactly one burst transaction, at its own start
\* register and of its own length, and on success each value it returns
\* has the 16 bits of the register pair at that channel's place in the
\* burst.
C5_OneBurst ==
    call.op \in SensorOps =>
        /\ Len(bus) = 1
        /\ bus[1].kind = "burst"
        /\ bus[1].reg = SensorStart[call.op]
        /\ bus[1].n = SensorCount(call.op)
        /\ BusOk =>
              \A k \in 1..Channels(call.op) :
                  LET hi == call.pre[SensorStart[call.op] + 2 * (k - 1)]
                      lo == call.pre[SensorStart[call.op] + 2 * (k - 1) + 1]
                  IN  (call.ret[k] - (hi * 256 + lo)) % 65536 = 0

\* the combined read decoded three different pairs from one burst
C5_Witness ==
    /\ call.op = "ITG3200GetRotation"
    /\ BusOk
    /\ Len(bus) = 1
    /\ call.pre[29] = 127 /\ call.pre[31] = 128 /\ call.pre[33] = 255
    /\ call.ret = <<32767, -32768, -1>>

\* C6: when a bus transaction of a call fails, the call reports the failure
\* to its caller, attempts nothing after the failed transaction, and a read
\* returns no value.
C6_FailureReported ==
    BusFailed =>
        /\ call.reported
        /\ \A i \in 1..Len(bus) : ~bus[i].ok => i = Len(bus)
        /\ call.ret = <<>>

\* C7: a bit-field setter whose initial read fails issues no write and
\* leaves every register as it was; and it either completes its read and
\* its write or reports failure.
C7_SetterAllOrNothing ==
    call.op \in BitFieldSetters =>
        /\ ~bus[1].ok => (Len(bus) = 1 /\ regs = call.pre)
        /\ \/ Len(bus) = 2 /\ BusOk
           \/ call.reported

\* C8: a read operation issues no bus write and leaves every device
\* register as it was.
C8_ReadsDoNotWrite ==
    call.op \in ReadOps =>
        /\ \A i \in 1..Len(bus) : bus[i].kind # "write"
        /\ regs = call.pre

\* a status read returned a set flag from a register it did not touch
C8_Witness ==
    /\ call.op = "ITG3200GetIntDeviceReadyStatus"
    /\ BusOk
    /\ call.ret = <<1>>
    /\ call.pre[26] = 5
    /\ regs[26] = 5

\* the bit-field accesses of the last call
Accesses == {call.acc[i] : i \in 1..Len(call.acc)}

\* C9 as stated: every bit-field descriptor the driver uses has
\* position + width <= 8, position being the most significant bit.
C9_PositionPlusWidth ==
    \A a \in Accesses : a.bit + a.len <= 8

\* C9 as amended: every bit-field descriptor the driver uses lies within
\* the byte, counted down from its most significant bit:
\* 1 <= width <= position + 1 <= 8.
C9_FieldWithinByte ==
    \A a \in Accesses : 1 <= a.len /\ a.len <= a.bit + 1 /\ a.bit + 1 <= 8

\* the widest field, DEVID at bit 6 with 6 bits, was accessed
C9_Witness ==
    /\ call.op = "ITG3200GetDeviceID"
    /\ BusOk
    /\ call.acc = <<[reg |-> 0, bit |-> 6, len |-> 6]>>
    /\ call.pre[0] = 165
    /\ call.ret = <<18>>

\* C10: the fields of the header that share a register cover disjoint
\* bits, none below bit 0, and every field the driver accesses is one of
\* them.
C10_FieldsDisjoint ==
    /\ \A f, g \in Fields :
          (f.name # g.name /\ f.reg = g.reg) => Span(f) \cap Span(g) = {}
    /\ \A f \in Fields : \A i \in Span(f) : i >= 0
    /\ \A a \in Accesses :
          \E f \in Fields : f.reg = a.reg /\ f.bit = a.bit /\ f.len = a.len

\* DLPF_CFG was rewritten next to a set FS_SEL, which kept its bits
C10_Witness ==
    /\ call.op = "ITG3200SetDLPFBandwidth"
    /\ BusOk
    /\ call.arg = <<0>>
    /\ call.pre[22] = 255
    /\ regs[22] = 248

\* what the sensor read op returns when it runs on registers r with the
\* buffer holding b, its burst succeeding or not as ok says
SensorReturn(op, r, b, ok, w) ==
    LET io == [oks |-> <<ok>>, junk |-> 0, track |-> FALSE]
        d  == I2CDeviceReadBytes(StartRun(r, b), io, SensorStart[op],
                                 SensorCount(op))
    IN  [k \in 1..Channels(op) |->
            DecodeInt(d.buf[2 * k - 1], d.buf[2 * k], w)]

\* the buffer as it is before the first read
FreshBuffer == [i \in 1..BufferLen |-> 0]

\* C11: what a sensor read returns does not depend on what earlier reads
\* left in ITG3200Buffer: it is what the same read returns on the same
\* registers, with the same bus outcome, when the buffer is still fresh.
C11_BufferIndependent ==
    call.op \in SensorOps =>
        call.ret = SensorReturn(call.op, call.pre, FreshBuffer, bus[1].ok,
                                intWidth)

\* C12: after ITG3200Initialize has run on a bus that succeeds, the sleep
\* bit (6) and the three standby bits (5, 4, 3) of PWR_MGM are 0.
C12_InitializeActivates ==
    (call.op = "ITG3200Initialize" /\ BusOk) =>
        \A i \in {ITG3200_PWR_SLEEP_BIT, ITG3200_PWR_STBY_XG_BIT,
                  ITG3200_PWR_STBY_YG_BIT, ITG3200_PWR_STBY_ZG_BIT} :
            BitOf(regs[ITG3200_RA_PWR_MGM], i) = 0

\* the values that the bytes of caller c's own burst read decode to
OwnDecode(c) ==
    [k \in 1..(Len(callers[c].own) \div 2) |->
        DecodeInt(callers[c].own[2 * k - 1], callers[c].own[2 * k],
                  intWidth)]

\* C13: a sensor read returns the decode of the bytes its own burst read
\* unless another caller's burst read wrote ITG3200Buffer between this
\* caller's burst read and the end of its decode; in particular reads
\* that are serialized always return the decode of their own bytes.
C13_OwnBytesUnlessRaced ==
    \A c \in Callers :
        (callers[c].pc = "done" /\ ~callers[c].raced) =>
            callers[c].ret = OwnDecode(c)

\* ITG3200GetTemperature read 0x00 0x00, ITG3200GetRotationX of another
\* caller then put 0x7F 0xFF in the buffer, and the temperature returned
\* is 32767
C13_Witness ==
    \E c, o \in Callers :
        /\ c # o
        /\ callers[c].pc = "done"
        /\ callers[c].op = "ITG3200GetTemperature"
        /\ callers[o].op = "ITG3200GetRotationX"
        /\ callers[c].raced
        /\ callers[c].own = <<0, 0>>
        /\ callers[c].ret = <<32767>>
        /\ callers[c].ret # OwnDecode(c)

=============================================================================
